---- MODULE Spec2Model ----
(***************************************************************************)
(* Partner recommender service (services/partner-recommender):             *)
(* PartnerInferenceEngine, ModelManager and FeatureStoreClient.            *)
(*                                                                         *)
(* Python floats in [0,1] are fixed-point integers, 1.0 = Scale.  Company  *)
(* ids are the lexicographic ranks of the id strings, so that id order is  *)
(* integer order.                                                          *)
(***************************************************************************)
EXTENDS Integers, Sequences, FiniteSets, TLC

\* ------------------------------------------------------------------ bounds

\* how many entries of the company list the model enumerates
NumCompanies == 3
\* largest top_k a caller passes (the smallest is -1)
MaxTopK == 3
\* how many distinct model artifacts exist
NumArtifacts == 2
\* longest list of query ids a batch call is given
MaxBatch == 6
\* most training runs recorded in one behaviour
MaxHistory == 2
\* how far a /batch-recommend request's id list goes over the size threshold
MaxOver == 1

\* explain_recommendation calls kept in `explained`
MaxCalls == 2

\* get_batch_recommendations calls running side by side
MaxRequests == 2

\* _store_features calls
MaxStores == 3

\* days the feature store runs
MaxDays == 2

\* --------------------------------------------------------------- constants

\* the fixed-point unit: the float 1.0
Scale == 10000
\* Python's None (no model instance)
None == 0
\* the outcome "the call raised" where a score is expected
Raise == -1
\* Config.similarity_threshold, default "0.1"
similarity_threshold == 1000
\* asyncio.Semaphore(5) in get_batch_recommendations
ConcurrencyLimit == 5
\* `if len(company_ids) > 100:` in batch_recommend_partners
BatchThreshold == 100
\* Config.cache_ttl_seconds, default "3600"
cache_ttl_seconds == 3600
\* Config.model_version, copied once by ModelManager.__init__
model_version == "v1.0.0"

\* FeatureStoreClient.get_all_companies: the list it returns, each id written
\* as its rank in lexicographic order of the twelve id strings
\* ("TechFlow AI" = 12, "GreenStart Solutions" = 7, "DataViz Pro" = 4, ...).
AllCompanies == <<12, 7, 4, 2, 1, 6, 8, 5, 10, 9, 3, 11>>

get_all_companies == SubSeq(AllCompanies, 1, NumCompanies)

Companies == {get_all_companies[i] : i \in 1..NumCompanies}

Artifacts == 1..NumArtifacts

TopKs == (-1)..MaxTopK

\* culture vectors the feature store may hold (2 dimensions stand for 128);
\* every norm is an integer, so cosines are exact in fixed point
CultureVectors == {<<0, 0>>, <<1, 0>>, <<3, 4>>}

\* traction_metrics values: a well-formed record, and a malformed one (the
\* JSON value null, on which every .get raises AttributeError).
\* funding_amount counts millions, so that ratios stay within 32 bits; the
\* ratio min/max(.,.,1) of whole millions is the same in either unit.
TractionValues ==
    { [well_formed |-> TRUE, funding_amount |-> 1, employee_count |-> 50,
       growth_rate |-> 20, market_sentiment |-> 5000],
      [well_formed |-> FALSE, funding_amount |-> 0, employee_count |-> 0,
       growth_rate |-> 0, market_sentiment |-> 0] }

\* user_overlap_score values
OverlapValues == {(6 * Scale) \div 10}

FeatureRecords ==
    [user_overlap_score : OverlapValues, culture_vector : CultureVectors,
     traction_metrics : TractionValues]

\* a feature store snapshot: a record for some of the companies
FeatureSnapshots == UNION {[S -> FeatureRecords] : S \in SUBSET Companies}

VARIABLES
    features,         \* the feature store: company id -> CompanyFeatures
    model,            \* ModelManager.model: None or the loaded artifact
    model_loaded,     \* ModelManager.model_loaded
    training_history, \* ModelManager.training_history
    disk_model,       \* the model files under config.model_path
    history_file,     \* training_history.json under config.model_path
    mop,              \* the last completed ModelManager operation
    rec,              \* the last completed get_recommendations call
    expl,             \* the last completed explain_recommendation call
    failing,          \* query ids whose get_recommendations call raises
    company_ids,      \* get_batch_recommendations: the query ids
    batch_top_k,      \* get_batch_recommendations: top_k
    task,             \* where each process_company task stands
    task_result,      \* what each finished process_company task returned
    semaphore,        \* the semaphore's counter
    batch_results,    \* the map get_batch_recommendations returns
    batch_pc,         \* where the get_batch_recommendations call stands
    request,          \* the /batch-recommend request being handled
    response,         \* what the /batch-recommend handler answered
    job,              \* the background task process_batch_recommendations
    cache,            \* Redis: company id of the key -> value and TTL
    explained,        \* the explain_recommendation calls made so far, in order
    batches,          \* concurrent get_batch_recommendations calls, one record each
    pair,             \* the last application of the analysers to two records
    redis,            \* the feature store's Redis: key -> value
    parquet,          \* the feature store's files: date -> rows of features_<date>.parquet
    today,            \* the date datetime.utcnow() gives the feature store
    pcall             \* the last completed FeaturePipeline call

\* the ModelManager's state
mvars == <<model, model_loaded, training_history, disk_model, history_file, mop>>

\* the observed engine calls
evars == <<rec, expl, pair>>

\* the batch call's state
bvars == <<failing, company_ids, batch_top_k, task, task_result, semaphore,
           batch_results, batch_pc>>

\* the /batch-recommend endpoint's state
svars == <<request, response, job, cache>>

\* several calls side by side
cvars == <<explained, batches>>

\* the feature store's pipeline
pvars == <<redis, parquet, today, pcall>>

vars == <<features, mvars, evars, bvars, svars, cvars, pvars>>

\* ------------------------------------------------------------ pure helpers

Min(a, b) == IF a <= b THEN a ELSE b

Max(a, b) == IF a >= b THEN a ELSE b

Abs(a) == IF a >= 0 THEN a ELSE -a

Dot(u, v) == u[1] * v[1] + u[2] * v[2]

ISqrt(n) == CHOOSE r \in 0..n : r * r <= n /\ (r + 1) * (r + 1) > n

\* np.linalg.norm
Norm(u) == ISqrt(Dot(u, u))

\* sklearn cosine_similarity of two non-zero vectors, in fixed point
cosine_similarity(u, v) == (Dot(u, v) * Scale) \div (Norm(u) * Norm(v))

\* features.get("culture_vector", [0.0] * 128): the zero vector when the
\* record has no such key
get_culture_vector(company_features) ==
    IF "culture_vector" \in DOMAIN company_features
    THEN company_features.culture_vector
    ELSE <<0, 0>>

\* company_features.get("traction_metrics", {}) with each figure read by
\* .get(name, 0): zeros when the key is absent
get_traction_metrics(company_features) ==
    IF "traction_metrics" \in DOMAIN company_features
    THEN company_features.traction_metrics
    ELSE [well_formed |-> TRUE, funding_amount |-> 0, employee_count |-> 0,
          growth_rate |-> 0, market_sentiment |-> 0]

\* company_features.get("user_overlap_score", 0)
get_user_overlap_score(company_features) ==
    IF "user_overlap_score" \in DOMAIN company_features
    THEN company_features.user_overlap_score
    ELSE 0

\* the feature values of a stored record as the feature store's
\* /features/company/{company_id} endpoint lists them
FlatFeatures(feature) ==
    [user_overlap_score |-> feature.user_overlap_score,
     funding_amount |-> feature.traction_metrics.funding_amount,
     employee_count |-> feature.traction_metrics.employee_count,
     growth_rate |-> feature.traction_metrics.growth_rate,
     market_sentiment |-> feature.traction_metrics.market_sentiment,
     culture_vector |-> get_culture_vector(feature)]

\* the reply of the feature store's /features/company/{company_id} endpoint
\* for a stored record: an OnlineFeatureResponse, with the feature values
\* under the key "features"
OnlineFeatureResponse(company_id, feature) ==
    [company_id |-> company_id,
     features |-> FlatFeatures(feature),
     ttl_seconds |-> cache_ttl_seconds]

\* mutant of get_company_features: a default record stands in for a missing one
get_company_features_Default(company_id) ==
    IF company_id \in DOMAIN features
    THEN OnlineFeatureResponse(company_id, features[company_id])
    ELSE CHOOSE r \in FeatureRecords :
            r.culture_vector = <<1, 0>> /\ r.traction_metrics.well_formed

\* FeatureStoreClient.get_company_features: the JSON of the endpoint's reply,
\* and {} (here <<>>) on a 404 or any other failure
get_company_features(company_id) ==
    IF company_id \in DOMAIN features
    THEN OnlineFeatureResponse(company_id, features[company_id])
    ELSE <<>>

\* get_batch_features, were a failed request answered from the records all the
\* same
get_batch_features_IgnoreFailure(ids, batch_ok) ==
    [c \in {ids[i] : i \in 1..Len(ids)} \cap DOMAIN features |-> features[c]]

\* FeatureStoreClient.get_batch_features: the records of the ids that have
\* one; {} when the request fails as a whole
get_batch_features(ids, batch_ok) ==
    IF batch_ok
    THEN [c \in {ids[i] : i \in 1..Len(ids)} \cap DOMAIN features
            |-> features[c]]
    ELSE <<>>

\* what the loaded artifact's inference returns for a pair: a probability
\* (the network ends in a sigmoid) or an exception.  The artifact is a black
\* box; the table gives each artifact ties, scores on both sides of the
\* threshold and a raising pair.
ModelOutput(a, q, c) ==
    LET h == (a * 2 + q + c * 3) % 6
    IN  CASE h = 0 -> Raise
          [] h = 1 -> 500
          [] h = 2 -> 7500
          [] h = 3 -> 2500
          [] h = 4 -> 7500
          [] OTHER -> Scale

\* ModelManager.predict
predict(q, c) ==
    IF ~model_loaded THEN Raise
    ELSE IF model = None THEN Raise
    ELSE ModelOutput(model, q, c)

\* mutant of FallbackScore: the similarity is returned without the clamp
FallbackScore_Unclamped(query_vector, candidate_vector) ==
    IF Norm(query_vector) = 0 \/ Norm(candidate_vector) = 0
    THEN 0
    ELSE cosine_similarity(query_vector, candidate_vector)

\* the else-branch of _calculate_match_score: cosine similarity of the two
\* culture vectors clamped to [0,1], and 0.0 when either has zero norm
FallbackScore(query_vector, candidate_vector) ==
    IF Norm(query_vector) = 0 \/ Norm(candidate_vector) = 0
    THEN 0
    ELSE Max(0, Min(Scale, cosine_similarity(query_vector, candidate_vector)))

\* mutant of _calculate_match_score: the model is asked whether or not it is
\* loaded
_calculate_match_score_AlwaysPredict(query_features, candidate_features, q, c) ==
    LET p == predict(q, c)
    IN  [score |-> IF p = Raise THEN 0 ELSE p,
         predict_called |-> TRUE,
         raised |-> p = Raise]

\* PartnerInferenceEngine._calculate_match_score: the score, whether
\* ModelManager.predict was invoked, and whether the computation raised
\* (the handler turns an exception into the score 0.0)
_calculate_match_score(query_features, candidate_features, q, c) ==
    IF model_loaded
    THEN LET p == predict(q, c)
         IN  [score |-> IF p = Raise THEN 0 ELSE p,
              predict_called |-> TRUE,
              raised |-> p = Raise]
    ELSE [score |-> FallbackScore(get_culture_vector(query_features),
                                  get_culture_vector(candidate_features)),
          predict_called |-> FALSE,
          raised |-> FALSE]

\* _calculate_compatibility_factors, were the ratios taken over the query's
\* own figure
_calculate_compatibility_factors_OverQuery(query_features, candidate_features) ==
    LET qt == get_traction_metrics(query_features)
        ct == get_traction_metrics(candidate_features)
        funding_ratio ==
            (Min(qt.funding_amount, ct.funding_amount) * Scale)
                \div Max(qt.funding_amount, 1)
        employee_ratio ==
            (Min(qt.employee_count, ct.employee_count) * Scale)
                \div Max(qt.employee_count, 1)
        growth_diff == (Abs(qt.growth_rate - ct.growth_rate) * Scale) \div 100
        sentiment_diff == Abs(qt.market_sentiment - ct.market_sentiment)
    IN  IF qt.well_formed /\ ct.well_formed
        THEN [funding_stage_alignment |-> (funding_ratio * 8) \div 10 + (2 * Scale) \div 10,
              company_size_alignment |-> (employee_ratio * 7) \div 10 + (3 * Scale) \div 10,
              growth_trajectory_alignment |-> Max(0, Scale - growth_diff),
              market_sentiment_alignment |-> Max(0, Scale - sentiment_diff)]
        ELSE [funding_stage_alignment |-> 0,
              company_size_alignment |-> 0,
              growth_trajectory_alignment |-> 0,
              market_sentiment_alignment |-> 0]

\* _calculate_compatibility_factors without max(0.0, .) on the two differences
_calculate_compatibility_factors_Unclamped(query_features, candidate_features) ==
    LET qt == get_traction_metrics(query_features)
        ct == get_traction_metrics(candidate_features)
        funding_ratio ==
            (Min(qt.funding_amount, ct.funding_amount) * Scale)
                \div Max(Max(qt.funding_amount, ct.funding_amount), 1)
        employee_ratio ==
            (Min(qt.employee_count, ct.employee_count) * Scale)
                \div Max(Max(qt.employee_count, ct.employee_count), 1)
        growth_diff == (Abs(qt.growth_rate - ct.growth_rate) * Scale) \div 100
        sentiment_diff == Abs(qt.market_sentiment - ct.market_sentiment)
    IN  IF qt.well_formed /\ ct.well_formed
        THEN [funding_stage_alignment |-> (funding_ratio * 8) \div 10 + (2 * Scale) \div 10,
              company_size_alignment |-> (employee_ratio * 7) \div 10 + (3 * Scale) \div 10,
              growth_trajectory_alignment |-> Scale - growth_diff,
              market_sentiment_alignment |-> Scale - sentiment_diff]
        ELSE [funding_stage_alignment |-> 0,
              company_size_alignment |-> 0,
              growth_trajectory_alignment |-> 0,
              market_sentiment_alignment |-> 0]

\* _calculate_compatibility_factors with the funding blend used for the size too
_calculate_compatibility_factors_SameBlend(query_features, candidate_features) ==
    LET qt == get_traction_metrics(query_features)
        ct == get_traction_metrics(candidate_features)
        funding_ratio ==
            (Min(qt.funding_amount, ct.funding_amount) * Scale)
                \div Max(Max(qt.funding_amount, ct.funding_amount), 1)
        employee_ratio ==
            (Min(qt.employee_count, ct.employee_count) * Scale)
                \div Max(Max(qt.employee_count, ct.employee_count), 1)
        growth_diff == (Abs(qt.growth_rate - ct.growth_rate) * Scale) \div 100
        sentiment_diff == Abs(qt.market_sentiment - ct.market_sentiment)
    IN  IF qt.well_formed /\ ct.well_formed
        THEN [funding_stage_alignment |-> (funding_ratio * 8) \div 10 + (2 * Scale) \div 10,
              company_size_alignment |-> (employee_ratio * 8) \div 10 + (2 * Scale) \div 10,
              growth_trajectory_alignment |-> Max(0, Scale - growth_diff),
              market_sentiment_alignment |-> Max(0, Scale - sentiment_diff)]
        ELSE [funding_stage_alignment |-> 0,
              company_size_alignment |-> 0,
              growth_trajectory_alignment |-> 0,
              market_sentiment_alignment |-> 0]

\* PartnerInferenceEngine._calculate_compatibility_factors; on an exception
\* the handler returns the all-zero breakdown
_calculate_compatibility_factors(query_features, candidate_features) ==
    LET qt == get_traction_metrics(query_features)
        ct == get_traction_metrics(candidate_features)
        funding_ratio ==
            (Min(qt.funding_amount, ct.funding_amount) * Scale)
                \div Max(Max(qt.funding_amount, ct.funding_amount), 1)
        employee_ratio ==
            (Min(qt.employee_count, ct.employee_count) * Scale)
                \div Max(Max(qt.employee_count, ct.employee_count), 1)
        growth_diff == (Abs(qt.growth_rate - ct.growth_rate) * Scale) \div 100
        sentiment_diff == Abs(qt.market_sentiment - ct.market_sentiment)
    IN  IF qt.well_formed /\ ct.well_formed
        THEN [funding_stage_alignment |-> (funding_ratio * 8) \div 10 + (2 * Scale) \div 10,
              company_size_alignment |-> (employee_ratio * 7) \div 10 + (3 * Scale) \div 10,
              growth_trajectory_alignment |-> Max(0, Scale - growth_diff),
              market_sentiment_alignment |-> Max(0, Scale - sentiment_diff)]
        ELSE [funding_stage_alignment |-> 0,
              company_size_alignment |-> 0,
              growth_trajectory_alignment |-> 0,
              market_sentiment_alignment |-> 0]

\* PartnerInferenceEngine._calculate_timing_score; 0.5 on an exception
_calculate_timing_score(candidate_features) ==
    LET traction == get_traction_metrics(candidate_features)
        sentiment_score == (traction.market_sentiment + Scale) \div 2
        growth_score == Min(Scale, Max(0, (traction.growth_rate * Scale) \div 50))
    IN  IF traction.well_formed
        THEN (sentiment_score * 6 + growth_score * 4) \div 10
        ELSE Scale \div 2

\* PartnerInferenceEngine._calculate_behavioral_alignment
_calculate_behavioral_alignment(query_features, candidate_features) ==
    LET query_vector == get_culture_vector(query_features)
        candidate_vector == get_culture_vector(candidate_features)
    IN  IF Norm(query_vector) = 0 \/ Norm(candidate_vector) = 0
        THEN Scale \div 2
        ELSE (cosine_similarity(query_vector, candidate_vector) + Scale) \div 2

\* whether one of the analysers raised (and absorbed) an exception for the pair
AnalysisRaised(query_features, candidate_features) ==
    ~(get_traction_metrics(query_features).well_formed
      /\ get_traction_metrics(candidate_features).well_formed)

\* ------------------------------------------------- get_recommendations

\* list.sort(key=match_score, reverse=True): a stable sort, so records with
\* equal match_score keep the order they were appended in
RECURSIVE InsertByScore(_, _)
InsertByScore(sorted, x) ==
    IF sorted = <<>> THEN <<x>>
    ELSE IF Head(sorted).match_score >= x.match_score
         THEN <<Head(sorted)>> \o InsertByScore(Tail(sorted), x)
         ELSE <<x>> \o sorted

\* mutant of SortByScore: the list is left in candidate order
SortByScore_Unsorted(s) == s

RECURSIVE SortByScore(_)
SortByScore(s) ==
    IF s = <<>> THEN <<>>
    ELSE InsertByScore(SortByScore(SubSeq(s, 1, Len(s) - 1)), s[Len(s)])

\* mutant of PySlice: the cut is one too long
PySlice_OffByOne(s, k) == SubSeq(s, 1, Min(Max(k + 1, 0), Len(s)))

\* Python's s[:k]: the first k elements, and for a negative k all but the
\* last -k
PySlice(s, k) ==
    IF k >= 0 THEN SubSeq(s, 1, Min(k, Len(s)))
    ELSE SubSeq(s, 1, Max(Len(s) + k, 0))

\* mutant of RemoveQuery: the query company stays among the candidates
RemoveQuery_Keep(s, company_id) == s

\* [c for c in candidate_companies if c != company_id]
RECURSIVE RemoveQuery(_, _)
RemoveQuery(s, company_id) ==
    IF s = <<>> THEN <<>>
    ELSE IF Head(s) = company_id THEN RemoveQuery(Tail(s), company_id)
         ELSE <<Head(s)>> \o RemoveQuery(Tail(s), company_id)

\* mutant of Confidence: the cap at 1.0 is missing
Confidence_Uncapped(match_score) == (match_score * 11) \div 10

\* the "confidence" entry: min(match_score * 1.1, 1.0)
Confidence(match_score) == Min((match_score * 11) \div 10, Scale)

\* one pass of the candidate loop: what is computed for a candidate that has
\* features
ProcessCandidate(company_id, query_features, candidate_id, candidate_features) ==
    LET m == _calculate_match_score(query_features, candidate_features,
                                    company_id, candidate_id)
    IN  [company_id |-> candidate_id,
         match_score |-> m.score,
         confidence |-> Confidence(m.score),
         reasoning |->
            [compatibility_factors |->
                _calculate_compatibility_factors(query_features, candidate_features),
             timing_score |-> _calculate_timing_score(candidate_features),
             behavioral_alignment |->
                _calculate_behavioral_alignment(query_features, candidate_features)],
         predict_called |-> m.predict_called,
         raised |-> m.raised
                    \/ (m.score >= similarity_threshold
                        /\ AnalysisRaised(query_features, candidate_features))]

\* the candidate loop: the records of the candidates that have features, in
\* the order of the candidate list
RECURSIVE ProcessAll(_, _, _, _)
ProcessAll(company_id, query_features, candidate_companies, candidate_features) ==
    IF candidate_companies = <<>> THEN <<>>
    ELSE LET c == Head(candidate_companies)
             rest == ProcessAll(company_id, query_features,
                                Tail(candidate_companies), candidate_features)
         IN  IF c \notin DOMAIN candidate_features THEN rest
             ELSE <<ProcessCandidate(company_id, query_features, c,
                                     candidate_features[c])>> \o rest

\* the recommendation dict appended for a processed candidate
Recommendation(p) ==
    [company_id |-> p.company_id, match_score |-> p.match_score,
     confidence |-> p.confidence, reasoning |-> p.reasoning]

\* mutant of AboveThreshold: the threshold test is missing
RECURSIVE AboveThreshold_All(_)
AboveThreshold_All(processed) ==
    IF processed = <<>> THEN <<>>
    ELSE <<Recommendation(Head(processed))>> \o AboveThreshold_All(Tail(processed))

\* `if match_score >= self.config.similarity_threshold:` over the loop
RECURSIVE AboveThreshold(_)
AboveThreshold(processed) ==
    IF processed = <<>> THEN <<>>
    ELSE IF Head(processed).match_score >= similarity_threshold
         THEN <<Recommendation(Head(processed))>> \o AboveThreshold(Tail(processed))
         ELSE AboveThreshold(Tail(processed))

\* the ranked list before the top_k cut, from the processed candidates
Ranked(processed) == SortByScore(AboveThreshold(processed))

\* PartnerInferenceEngine.get_recommendations: the call's outcome, with the
\* candidate loop's intermediate values kept beside the returned list.  Every
\* helper absorbs its own exceptions, so the outer handler (log and re-raise)
\* is reached only by an exception from outside the modelled paths; the ids
\* in `failing` are the calls where one is injected.
\* PartnerInferenceEngine._apply_filters: every candidate is returned, whatever
\* the filters
_apply_filters(candidate_companies, filters) == candidate_companies

\* filters left out of the request (None, or an empty dict: `if filters` is
\* false for both)
NoFilters == {}

\* the filters a caller passes: none, or a dict of required feature values,
\* written as its set of items
Filters == {NoFilters, {<<"user_overlap_score", Scale>>}}

get_recommendations_filtered(company_id, top_k, filters, batch_ok) ==
    LET query_features == get_company_features(company_id)
        without_query == RemoveQuery(get_all_companies, company_id)
        candidate_companies ==
            IF filters # NoFilters THEN _apply_filters(without_query, filters)
            ELSE without_query
        candidate_features == get_batch_features(candidate_companies, batch_ok)
        processed == ProcessAll(company_id, query_features,
                                candidate_companies, candidate_features)
    IN  IF company_id \in failing
        THEN [outcome |-> "raised", company_id |-> company_id, top_k |-> top_k,
              known |-> query_features # <<>>, loaded |-> model_loaded,
              filters |-> filters, batch_ok |-> batch_ok, fetched |-> {},
              candidates |-> <<>>, processed |-> <<>>, ranked |-> <<>>,
              result |-> <<>>]
        ELSE IF query_features = <<>>
        THEN [outcome |-> "returned", company_id |-> company_id, top_k |-> top_k,
              known |-> FALSE, loaded |-> model_loaded,
              filters |-> filters, batch_ok |-> batch_ok, fetched |-> {},
              candidates |-> <<>>, processed |-> <<>>, ranked |-> <<>>,
              result |-> <<>>]
        ELSE [outcome |-> "returned", company_id |-> company_id, top_k |-> top_k,
              known |-> TRUE, loaded |-> model_loaded,
              filters |-> filters, batch_ok |-> batch_ok, fetched |-> DOMAIN candidate_features,
              candidates |-> candidate_companies,
              processed |-> processed,
              ranked |-> Ranked(processed),
              result |-> PySlice(Ranked(processed), top_k)]

\* get_recommendations with filters left at their default, None
get_recommendations(company_id, top_k, batch_ok) ==
    get_recommendations_filtered(company_id, top_k, NoFilters, batch_ok)

NoCall ==
    [outcome |-> "none", company_id |-> None, top_k |-> 0, known |-> FALSE,
     loaded |-> FALSE, filters |-> NoFilters, batch_ok |-> TRUE, fetched |-> {},
     candidates |-> <<>>,
     processed |-> <<>>, ranked |-> <<>>, result |-> <<>>]

\* ---------------------------------------------- explain_recommendation

\* _analyze_feature_contributions without its sort: the contributions in the
\* order they are appended
_analyze_feature_contributions_Unsorted(query_features, partner_features, top_features) ==
    LET qt == get_traction_metrics(query_features)
        pt == get_traction_metrics(partner_features)
        overlap_score == get_user_overlap_score(query_features)
        funding_alignment ==
            (Min(qt.funding_amount, pt.funding_amount) * Scale)
                \div Max(Max(qt.funding_amount, pt.funding_amount), 1)
        overlap == [feature |-> "user_overlap_score", value |-> overlap_score,
                    contribution |-> (overlap_score * 30) \div 100]
        funding == [feature |-> "funding_alignment", value |-> funding_alignment,
                    contribution |-> (funding_alignment * 25) \div 100]
    IN  IF qt.well_formed /\ pt.well_formed
        THEN PySlice(<<overlap, funding>>, top_features)
        ELSE <<>>

\* PartnerInferenceEngine._analyze_feature_contributions: the two weighted
\* contributions, sorted by descending contribution (stable) and cut to
\* top_features; [] when the computation raises
_analyze_feature_contributions(query_features, partner_features, top_features) ==
    LET qt == get_traction_metrics(query_features)
        pt == get_traction_metrics(partner_features)
        overlap_score == get_user_overlap_score(query_features)
        funding_alignment ==
            (Min(qt.funding_amount, pt.funding_amount) * Scale)
                \div Max(Max(qt.funding_amount, pt.funding_amount), 1)
        overlap == [feature |-> "user_overlap_score", value |-> overlap_score,
                    contribution |-> (overlap_score * 30) \div 100]
        funding == [feature |-> "funding_alignment", value |-> funding_alignment,
                    contribution |-> (funding_alignment * 25) \div 100]
        contributions == IF overlap.contribution >= funding.contribution
                         THEN <<overlap, funding>>
                         ELSE <<funding, overlap>>
    IN  IF qt.well_formed /\ pt.well_formed
        THEN PySlice(contributions, top_features)
        ELSE <<>>

\* PartnerInferenceEngine._identify_business_synergies
_identify_business_synergies ==
    <<"Complementary technology stacks", "Shared target market segments",
      "Cross-selling opportunities", "Combined expertise in AI/ML",
      "Potential for joint product development">>

\* PartnerInferenceEngine._identify_potential_challenges
_identify_potential_challenges ==
    <<"Different company sizes may create power imbalances",
      "Potential overlap in some market segments",
      "Need for clear IP and data sharing agreements">>

NoExplain ==
    [outcome |-> "none", error |-> FALSE, query_company |-> None,
     partner_company |-> None, top_features |-> 0, loaded |-> FALSE]

\* mutant of explain_recommendation: the error reply carries a score
explain_recommendation_ScoreInError(company_id, partner_id, top_features) ==
    [outcome |-> "returned",
     error |-> company_id \notin DOMAIN features \/ partner_id \notin DOMAIN features,
     query_company |-> company_id, partner_company |-> partner_id,
     top_features |-> top_features,
     loaded |-> model_loaded, overall_match_score |-> 0,
     predict_called |-> FALSE, feature_contributions |-> <<>>]

\* explain_recommendation, were the explanation stamped with the number of
\* the call as a recommendation is stamped with the time
explain_recommendation_Timestamped(company_id, partner_id, top_features) ==
    LET query_features == get_company_features(company_id)
        partner_features == get_company_features(partner_id)
        m == _calculate_match_score(query_features, partner_features,
                                    company_id, partner_id)
    IN  IF query_features = <<>> \/ partner_features = <<>>
        THEN [outcome |-> "returned", error |-> TRUE, query_company |-> company_id,
              partner_company |-> partner_id, top_features |-> top_features,
              loaded |-> model_loaded]
        ELSE [outcome |-> "returned", error |-> FALSE, query_company |-> company_id,
              partner_company |-> partner_id, top_features |-> top_features,
              loaded |-> model_loaded,
              overall_match_score |-> m.score + Len(explained),
              predict_called |-> m.predict_called,
              feature_contributions |->
                 _analyze_feature_contributions(query_features, partner_features,
                                                top_features),
              compatibility_breakdown |->
                 _calculate_compatibility_factors(query_features, partner_features),
              cultural_alignment |->
                 [overall_alignment |->
                     _calculate_behavioral_alignment(query_features, partner_features)],
              business_synergies |-> _identify_business_synergies,
              potential_challenges |-> _identify_potential_challenges]

\* PartnerInferenceEngine.explain_recommendation: {"error": ...} when either
\* company has no features, the explanation otherwise
explain_recommendation(company_id, partner_id, top_features) ==
    LET query_features == get_company_features(company_id)
        partner_features == get_company_features(partner_id)
        m == _calculate_match_score(query_features, partner_features,
                                    company_id, partner_id)
    IN  IF query_features = <<>> \/ partner_features = <<>>
        THEN [outcome |-> "returned", error |-> TRUE, query_company |-> company_id,
              partner_company |-> partner_id, top_features |-> top_features,
              loaded |-> model_loaded]
        ELSE [outcome |-> "returned", error |-> FALSE, query_company |-> company_id,
              partner_company |-> partner_id, top_features |-> top_features,
              loaded |-> model_loaded,
              overall_match_score |-> m.score,
              predict_called |-> m.predict_called,
              feature_contributions |->
                 _analyze_feature_contributions(query_features, partner_features,
                                                top_features),
              compatibility_breakdown |->
                 _calculate_compatibility_factors(query_features, partner_features),
              cultural_alignment |->
                 [overall_alignment |->
                     _calculate_behavioral_alignment(query_features, partner_features)],
              business_synergies |-> _identify_business_synergies,
              potential_challenges |-> _identify_potential_challenges]

\* ------------------------------------------------------- the engine's run

\* the states of the ModelManager the engine can find: nothing loaded, an
\* artifact loaded, or a stale instance left behind by a failed load
ModelStates ==
    {<<None, FALSE>>} \cup {<<a, l>> : a \in Artifacts, l \in BOOLEAN}

\* no ModelManager operation has completed yet
\* no pair of records has been analysed yet
NoPair == [applied |-> FALSE]

\* no FeaturePipeline call has been made yet
NoPCall == [op |-> "none"]

\* the feature store at its start: an empty Redis, no parquet file, day 1
PipelineIdle ==
    /\ redis = <<>>
    /\ parquet = <<>>
    /\ today = 1
    /\ pcall = NoPCall

NoOp == [op |-> "none", outcome |-> "none", model |-> None, model_loaded |-> FALSE]

\* no /batch-recommend request has been received, no background task was
\* added and Redis holds no batch entry
NoRequest == [company_ids |-> <<>>, top_k |-> 0, received |-> FALSE]

NoResponse == [status |-> "none"]

NoJob == [pc |-> "none", results |-> <<>>, todo |-> <<>>, failed |-> {}]

ServiceIdle ==
    /\ request = NoRequest
    /\ response = NoResponse
    /\ job = NoJob
    /\ cache = <<>>

\* no batch call has been made
BatchIdle ==
    /\ failing = {}
    /\ company_ids = <<>>
    /\ batch_top_k = 0
    /\ task = <<>>
    /\ task_result = <<>>
    /\ semaphore = ConcurrencyLimit
    /\ batch_results = <<>>
    /\ batch_pc = "idle"

Init ==
    /\ features \in FeatureSnapshots
    /\ \E ms \in ModelStates : model = ms[1] /\ model_loaded = ms[2]
    /\ training_history = <<>>
    /\ disk_model = model
    /\ history_file = <<>>
    /\ mop = NoOp
    /\ rec = NoCall
    /\ expl = NoExplain
    /\ explained = <<>>
    /\ batches = <<>>
    /\ pair = NoPair
    /\ PipelineIdle
    /\ BatchIdle
    /\ ServiceIdle

\* no call has been observed yet.  The engine keeps no state between calls
\* (features and model are only read), so one observed call per behaviour,
\* from every feature snapshot and model state, covers every call.
Idle == rec.outcome = "none" /\ expl.outcome = "none"

\* a caller invokes get_recommendations
GetRecommendations ==
    \E company_id \in Companies, top_k \in TopKs, filters \in Filters,
       batch_ok \in BOOLEAN :
        /\ Idle
        /\ rec' = get_recommendations_filtered(company_id, top_k, filters, batch_ok)
        /\ UNCHANGED <<features, pvars, pair, svars, cvars, mvars, expl, bvars>>

\* a caller invokes explain_recommendation
ExplainRecommendation ==
    \E company_id \in Companies, partner_id \in Companies, top_features \in TopKs :
        /\ Idle
        /\ expl' = explain_recommendation(company_id, partner_id, top_features)
        /\ UNCHANGED <<features, pvars, pair, svars, cvars, mvars, rec, bvars>>

Next == GetRecommendations \/ ExplainRecommendation

Spec == Init /\ [][Next]_vars

\* ------------------------------------------------ the scores of a pair

\* culture vectors for the score of a pair: with CultureVectors, a pair of
\* orthogonal and a pair of opposite vectors
ScoreVectors == CultureVectors \cup {<<0, 1>>, <<-1, 0>>}

\* feature records for the score of a pair: well-formed, with each culture
\* vector or without the culture_vector key
ScoreRecords ==
    LET t == CHOOSE v \in TractionValues : v.well_formed
    IN  {[user_overlap_score |-> o, culture_vector |-> v, traction_metrics |-> t] :
            o \in OverlapValues, v \in ScoreVectors}
        \cup {[user_overlap_score |-> o, traction_metrics |-> t] :
                o \in OverlapValues}

\* ------------------------------------------- get_batch_recommendations

AtMostOne(S) == {{}} \cup {{x} : x \in S}

\* the feature record every company of a batch run holds
BatchRecord ==
    CHOOSE r \in FeatureRecords :
        r.culture_vector = <<1, 0>> /\ r.traction_metrics.well_formed

\* the feature store in a batch run: at most one company has no record
BatchSnapshots ==
    {[c \in Companies \ M |-> BatchRecord] : M \in AtMostOne(Companies)}

\* the model in a batch run: none, or artifact 1 loaded
BatchModelStates == {ms \in ModelStates : ms[1] = None \/ (ms[1] = 1 /\ ms[2])}

\* the lists of query ids a batch is given: up to MaxBatch ids alternating
\* between the first company and another (the first company again gives a
\* list of duplicates)
BatchInputs ==
    {[i \in 1..n |-> IF i % 2 = 1 THEN Head(get_all_companies) ELSE b] :
        n \in 0..MaxBatch, b \in Companies}

BatchTopKs == {MaxTopK}

\* mutant of process_company: the per-query handler is missing, the exception
\* leaves the task
process_company_NoCatch(company_id, top_k) ==
    LET r == get_recommendations(company_id, top_k, TRUE)
    IN  [exception |-> r.outcome = "raised", company_id |-> company_id,
         recommendations |-> r.result]

\* mutant of process_company: the call's list is dropped
process_company_AlwaysEmpty(company_id, top_k) ==
    [exception |-> FALSE, company_id |-> company_id, recommendations |-> <<>>]

\* process_company's body under the semaphore: the pair it returns; a raising
\* get_recommendations call is caught and gives (company_id, [])
process_company(company_id, top_k) ==
    LET r == get_recommendations(company_id, top_k, TRUE)
    IN  [exception |-> FALSE, company_id |-> company_id,
         recommendations |-> IF r.outcome = "raised" THEN <<>> ELSE r.result]

\* the loop over gather's results: exceptions are skipped, and each pair is
\* stored under its company id, a later pair replacing an earlier one
CollectResults(results) ==
    LET kept == {i \in DOMAIN results : ~results[i].exception}
        ids == {results[i].company_id : i \in kept}
        last(q) == CHOOSE i \in kept :
                      /\ results[i].company_id = q
                      /\ \A j \in kept : results[j].company_id = q => j <= i
    IN  [q \in ids |-> results[last(q)].recommendations]

\* PartnerInferenceEngine.get_batch_recommendations as one call: the map
\* built from every task's pair.  The engine keeps no state between the
\* per-query calls, so the map does not depend on the order the tasks ran in.
get_batch_recommendations(ids, top_k) ==
    CollectResults([i \in DOMAIN ids |-> process_company(ids[i], top_k)])

\* per-query calls between acquiring and releasing the semaphore
InFlight == Cardinality({i \in DOMAIN task : task[i] = "running"})

\* mutant of SemaphoreFree: the counter is not consulted
SemaphoreFree_Always == TRUE

\* Semaphore.acquire proceeds without waiting
SemaphoreFree == semaphore > 0

BatchInit ==
    /\ features \in BatchSnapshots
    /\ \E ms \in BatchModelStates : model = ms[1] /\ model_loaded = ms[2]
    /\ training_history = <<>>
    /\ disk_model = model
    /\ history_file = <<>>
    /\ mop = NoOp
    /\ rec = NoCall
    /\ expl = NoExplain
    /\ explained = <<>>
    /\ batches = <<>>
    /\ pair = NoPair
    /\ PipelineIdle
    /\ BatchIdle
    /\ ServiceIdle

\* get_batch_recommendations is called: the semaphore and one task per query
\* id are created
StartBatch ==
    \E ids \in BatchInputs, top_k \in BatchTopKs, f \in AtMostOne(Companies) :
        /\ batch_pc = "idle"
        /\ failing' = f
        /\ company_ids' = ids
        /\ batch_top_k' = top_k
        /\ task' = [i \in DOMAIN ids |-> "pending"]
        /\ task_result' = [i \in DOMAIN ids |-> <<>>]
        /\ semaphore' = ConcurrencyLimit
        /\ batch_results' = <<>>
        /\ batch_pc' = "gathering"
        /\ UNCHANGED <<features, pvars, svars, cvars, mvars, evars>>

\* task i enters `async with semaphore`.  gather starts the tasks in list
\* order and the semaphore wakes its waiters first-in first-out, so a task
\* acquires only after every task before it.
Acquire(i) ==
    /\ batch_pc = "gathering"
    /\ i \in DOMAIN task
    /\ task[i] = "pending"
    /\ \A j \in 1..(i - 1) : task[j] # "pending"
    /\ SemaphoreFree
    /\ task' = [task EXCEPT ![i] = "running"]
    /\ semaphore' = semaphore - 1
    /\ UNCHANGED <<features, pvars, svars, cvars, mvars, evars, failing, company_ids, batch_top_k,
                   task_result, batch_results, batch_pc>>

\* task i leaves the `async with` block: its position moves past the call
LeaveBlock(i) ==
    /\ batch_pc = "gathering"
    /\ i \in DOMAIN task
    /\ task[i] = "running"
    /\ task' = [task EXCEPT ![i] = "done"]

\* task i's get_recommendations call ends (returns or raises) and the task
\* leaves the `async with` block, releasing the semaphore
Finish(i) ==
    /\ LeaveBlock(i)
    /\ task_result' =
          [task_result EXCEPT ![i] = process_company(company_ids[i], batch_top_k)]
    /\ semaphore' = semaphore + 1
    /\ UNCHANGED <<features, pvars, svars, cvars, mvars, evars, failing, company_ids, batch_top_k,
                   batch_results, batch_pc>>

\* gather has every task's result: the map is built and returned
Collect ==
    /\ batch_pc = "gathering"
    /\ \A i \in DOMAIN task : task[i] = "done"
    /\ batch_results' = CollectResults(task_result)
    /\ batch_pc' = "returned"
    /\ UNCHANGED <<features, pvars, svars, cvars, mvars, evars, failing, company_ids, batch_top_k,
                   task, task_result, semaphore>>

\* the steps the event loop takes on its own once the batch has started
BatchRun == (\E i \in 1..MaxBatch : Acquire(i) \/ Finish(i)) \/ Collect

BatchNext == StartBatch \/ BatchRun

\* The event loop runs every task that is ready, and each feature store
\* request ends (the HTTP client has a 30 s timeout), so a step of a task that
\* stays possible is taken.  A task's leaving the block is told by its
\* position alone, so that condition is stated on `task`.
BatchSpec ==
    /\ BatchInit
    /\ [][BatchNext]_vars
    /\ WF_vars(Collect)
    /\ \A i \in 1..MaxBatch : WF_vars(Acquire(i)) /\ WF_task(LeaveBlock(i))

\* ------------------------------------------------- /batch-recommend

\* the id lists a /batch-recommend request carries: short ones, and lists at
\* and over the size threshold, alternating between the first company and
\* another
RequestSizes == (0..2) \cup (BatchThreshold..(BatchThreshold + MaxOver))

RequestInputs ==
    {[i \in 1..n |-> IF i % 2 = 1 THEN Head(get_all_companies) ELSE b] :
        n \in RequestSizes, b \in Companies}

\* mutant of IsLargeBatch: a list of exactly the threshold's length is large
IsLargeBatch_AtThreshold(ids) == Len(ids) >= BatchThreshold

\* `if len(company_ids) > 100:`
IsLargeBatch(ids) == Len(ids) > BatchThreshold

\* json.dumps(recommendations, default=str): the JSON text of the list
json_dumps(recommendations) == <<"json", recommendations>>

\* results.items(): the keys of the map in insertion order, which is the
\* order of each id's first place in the list
KeyOrder(ids) ==
    LET firsts == {i \in DOMAIN ids : \A j \in 1..(i - 1) : ids[j] # ids[i]}
        nth(k) == CHOOSE i \in firsts : Cardinality({j \in firsts : j <= i}) = k
    IN  [k \in 1..Cardinality(firsts) |-> ids[nth(k)]]

\* redis setex(cache_key, ttl, value): the entry is written or replaced
setex(key, ttl, value) ==
    [k \in DOMAIN cache \cup {key} |->
        IF k = key THEN [value |-> value, ttl |-> ttl] ELSE cache[k]]

ServiceInit ==
    /\ features \in BatchSnapshots
    /\ \E ms \in BatchModelStates : model = ms[1] /\ model_loaded = ms[2]
    /\ training_history = <<>>
    /\ disk_model = model
    /\ history_file = <<>>
    /\ mop = NoOp
    /\ rec = NoCall
    /\ expl = NoExplain
    /\ explained = <<>>
    /\ batches = <<>>
    /\ pair = NoPair
    /\ PipelineIdle
    /\ failing \in AtMostOne(Companies)
    /\ company_ids = <<>>
    /\ batch_top_k = 0
    /\ task = <<>>
    /\ task_result = <<>>
    /\ semaphore = ConcurrencyLimit
    /\ batch_results = <<>>
    /\ batch_pc = "idle"
    /\ ServiceIdle

\* the /batch-recommend handler, from the request to the returned body.
\* FastAPI passes a BackgroundTasks object, so `if background_tasks:` holds:
\* a large batch is added as a background task, which runs once the answer
\* has been sent; any other batch is run by the handler itself.
batch_recommend_partners ==
    \E ids \in RequestInputs, top_k \in BatchTopKs :
        /\ ~request.received
        /\ request' = [company_ids |-> ids, top_k |-> top_k, received |-> TRUE]
        /\ IF IsLargeBatch(ids)
           THEN /\ job' = [job EXCEPT !.pc = "queued"]
                /\ response' = [status |-> "accepted"]
           ELSE /\ job' = job
                /\ LET batch_results_ == get_batch_recommendations(ids, top_k)
                   IN  response' =
                          [status |-> "completed",
                           results |-> batch_results_,
                           processed_count |-> Cardinality(DOMAIN batch_results_)]
        /\ UNCHANGED <<features, pvars, mvars, evars, bvars, cvars, cache>>

\* process_batch_recommendations starts: the whole batch is computed
RunBackground ==
    /\ job.pc = "queued"
    /\ LET results == get_batch_recommendations(request.company_ids, request.top_k)
       IN  job' = [pc |-> "storing", results |-> results,
                   todo |-> KeyOrder(request.company_ids), failed |-> {}]
    /\ UNCHANGED <<features, pvars, mvars, evars, bvars, cvars, request, response, cache>>

\* one pass of the storing loop: setex writes the entry, or raises (Redis is
\* unreachable or refuses), which ends the loop in the outer handler
StoreEntry ==
    \E ok \in BOOLEAN :
        /\ job.pc = "storing"
        /\ job.todo # <<>>
        /\ LET company_id == Head(job.todo)
           IN  IF ok
               THEN /\ cache' = setex(company_id, cache_ttl_seconds,
                                      json_dumps(job.results[company_id]))
                    /\ job' = [job EXCEPT !.todo = Tail(job.todo)]
               ELSE /\ cache' = cache
                    /\ job' = [job EXCEPT !.pc = "ended", !.failed = {company_id}]
        /\ UNCHANGED <<features, pvars, mvars, evars, bvars, cvars, request, response>>

\* the storing loop is through: the completion is logged
CompleteBackground ==
    /\ job.pc = "storing"
    /\ job.todo = <<>>
    /\ job' = [job EXCEPT !.pc = "ended"]
    /\ UNCHANGED <<features, pvars, mvars, evars, bvars, cvars, request, response, cache>>

ServiceNext ==
    batch_recommend_partners \/ RunBackground \/ StoreEntry \/ CompleteBackground

ServiceSpec == ServiceInit /\ [][ServiceNext]_vars

\* ------------------------------------------------------------ ModelManager

\* the model files hold something CreateInferenceSession cannot load
Corrupt == NumArtifacts + 1

\* what the model files under config.model_path can hold: nothing, an
\* artifact, or files that do not load
DiskValues == {None} \cup Artifacts \cup {Corrupt}

\* dataset paths a training request names
Datasets == {"dataset_a", "dataset_b"}

\* the training_record train_model appends
training_record(dataset_path) ==
    [dataset_path |-> dataset_path, model_version |-> model_version]

\* load_model, were the flag set before the session is created and left set
\* when the creation fails
load_model_FlagKept(current, disk) ==
    IF disk \in Artifacts
    THEN [model |-> disk, model_loaded |-> TRUE, raised |-> FALSE]
    ELSE [model |-> current, model_loaded |-> TRUE, raised |-> TRUE]

\* ModelManager.load_model with `current` as self.model: a session on the
\* files' artifact and model_loaded = True, or, when CreateInferenceSession
\* raises, self.model as it was, model_loaded = False and the exception
load_model(current, disk) ==
    IF disk \in Artifacts
    THEN [model |-> disk, model_loaded |-> TRUE, raised |-> FALSE]
    ELSE [model |-> current, model_loaded |-> FALSE, raised |-> TRUE]

\* ModelManager.get_model_status
get_model_status ==
    [loaded |-> model_loaded, version |-> model_version,
     last_updated |-> disk_model # None]

\* ModelManager.get_training_history: the file when it exists, else memory
get_training_history ==
    IF history_file # <<>> THEN history_file ELSE training_history

\* the record of a completed operation, with self.model and
\* self.model_loaded as they were when it was called
Completed(op, raised) ==
    [op |-> op, outcome |-> IF raised THEN "raised" ELSE "returned",
     model |-> model, model_loaded |-> model_loaded]

\* the service is up and no ModelManager operation is mid-run: initialize
\* has returned since the last construction
Serving ==
    /\ mop.op # "none"
    /\ mop.outcome # "running"
    /\ ~(mop.op = "initialize" /\ mop.outcome = "raised")

\* ModelManager.__init__ at a start of the process, with any files left
\* under config.model_path
ModelInit ==
    /\ features = [c \in Companies |-> BatchRecord]
    /\ model = None
    /\ model_loaded = FALSE
    /\ training_history = <<>>
    /\ disk_model \in DiskValues
    /\ history_file = <<>>
    /\ mop = NoOp
    /\ rec = NoCall
    /\ expl = NoExplain
    /\ explained = <<>>
    /\ batches = <<>>
    /\ pair = NoPair
    /\ PipelineIdle
    /\ BatchIdle
    /\ ServiceIdle

\* the process starts again: ModelManager.__init__ resets the fields, the
\* files stay
Construct ==
    /\ mop.op # "none"
    /\ model' = None
    /\ model_loaded' = FALSE
    /\ training_history' = <<>>
    /\ mop' = NoOp
    /\ UNCHANGED <<features, pvars, svars, cvars, disk_model, history_file, evars, bvars>>

\* ModelManager.initialize, called once by the service's startup
Initialize ==
    /\ mop.op = "none"
    /\ LET l == IF disk_model # None THEN load_model(model, disk_model)
                ELSE [model |-> model, model_loaded |-> model_loaded,
                      raised |-> FALSE]
       IN  /\ model' = l.model
           /\ model_loaded' = l.model_loaded
           /\ mop' = Completed("initialize", l.raised)
    /\ UNCHANGED <<features, pvars, svars, cvars, training_history, disk_model, history_file,
                   evars, bvars>>

\* ModelManager.reload_model: a held model is dropped first, then load_model
\* runs; its exception is logged and raised again
ReloadModel ==
    /\ Serving
    /\ LET dropped == model # None
           l == load_model(IF dropped THEN None ELSE model, disk_model)
       IN  /\ model' = l.model
           /\ model_loaded' = l.model_loaded
           /\ mop' = Completed("reload_model", l.raised)
    /\ UNCHANGED <<features, pvars, svars, cvars, training_history, disk_model, history_file,
                   evars, bvars>>

\* ModelManager.train_model's body.  `stage` is where an exception ends the
\* run: writing the configuration, building or fitting the model, writing the
\* history file, or none of these ("done"), after which load_model runs.
\* `written` is what the model files hold after a fit that returned (an
\* artifact, unloadable files, or the files as they were when no snapshot was
\* taken); a run that stops after the configuration was written leaves the
\* files as they were or unloadable.
TrainRun(stage, dataset_path, written) ==
    /\ training_history' =
          IF stage \in {"history", "done"}
          THEN Append(training_history, training_record(dataset_path))
          ELSE training_history
    /\ history_file' =
          IF stage = "done" THEN training_history' ELSE history_file
    /\ disk_model' =
          CASE stage = "config" -> disk_model
            [] stage = "fit" -> IF written = Corrupt THEN Corrupt ELSE disk_model
            [] OTHER -> written
    /\ LET l == IF stage = "done" THEN load_model(model, written)
                ELSE [model |-> model, model_loaded |-> model_loaded,
                      raised |-> TRUE]
       IN  /\ model' = l.model
           /\ model_loaded' = l.model_loaded

\* whether the run raises
TrainRaised(stage, written) ==
    IF stage = "done" THEN load_model(model, written).raised ELSE TRUE

\* ModelManager.train_model, from the call to its return or exception
TrainModel ==
    \E stage \in {"config", "fit", "history", "done"},
       dataset_path \in Datasets,
       written \in Artifacts \cup {Corrupt, disk_model} :
        /\ Serving
        /\ Len(training_history) < MaxHistory
        /\ TrainRun(stage, dataset_path, written)
        /\ mop' = Completed("train_model", TrainRaised(stage, written))
        /\ UNCHANGED <<features, pvars, svars, cvars, evars, bvars>>

\* the files under config.model_path are replaced from outside the service
\* (a new artifact is deployed, or the files are damaged or removed)
DiskChange ==
    \E d \in DiskValues \ {disk_model} :
        /\ Serving
        /\ disk_model' = d
        /\ UNCHANGED <<features, pvars, svars, cvars, model, model_loaded, training_history,
                       history_file, mop, evars, bvars>>

ModelNext == Construct \/ Initialize \/ ReloadModel \/ TrainModel \/ DiskChange

ModelSpec == ModelInit /\ [][ModelNext]_vars

\* --------------------------------------- reload_model, statement by statement

\* a reload_model call is between its two statements
Reloading == mop.op = "reload_model" /\ mop.outcome = "running"

\* reload_model's first statement: `if self.model:` drops the held model and
\* clears model_loaded
ReloadDrop ==
    /\ Serving
    /\ mop' = [op |-> "reload_model", outcome |-> "running",
               model |-> model, model_loaded |-> model_loaded]
    /\ model' = None
    /\ model_loaded' = IF model # None THEN FALSE ELSE model_loaded
    /\ UNCHANGED <<features, pvars, svars, cvars, training_history, disk_model, history_file,
                   evars, bvars>>

\* reload_model's second statement: `await self.load_model()`, which returns
\* or raises
ReloadLoad ==
    /\ Reloading
    /\ LET l == load_model(model, disk_model)
       IN  /\ model' = l.model
           /\ model_loaded' = l.model_loaded
           /\ mop' = [mop EXCEPT
                        !.outcome = IF l.raised THEN "raised" ELSE "returned"]
    /\ UNCHANGED <<features, pvars, svars, cvars, training_history, disk_model, history_file,
                   evars, bvars>>

ReloadNext ==
    Construct \/ Initialize \/ ReloadDrop \/ ReloadLoad \/ TrainModel \/ DiskChange

ReloadSpec == ModelInit /\ [][ReloadNext]_vars

\* ------------------------------------------- training and the event loop

\* the background task train_model has started and has not ended
Training == mop.op = "train_model" /\ mop.outcome = "running"

\* the /train handler has added train_model as a background task and
\* answered "training_started"; the task, a coroutine function, starts on the
\* service's event loop
TrainBegin ==
    /\ Serving
    /\ Len(training_history) < MaxHistory
    /\ mop' = [op |-> "train_model", outcome |-> "running",
               model |-> model, model_loaded |-> model_loaded]
    /\ UNCHANGED <<features, pvars, svars, cvars, model, model_loaded, training_history,
                   disk_model, history_file, evars, bvars>>

\* train_model runs to its end
TrainEnd ==
    \E stage \in {"config", "fit", "history", "done"},
       dataset_path \in Datasets,
       written \in Artifacts \cup {Corrupt, disk_model} :
        /\ Training
        /\ TrainRun(stage, dataset_path, written)
        /\ mop' = [mop EXCEPT
                     !.outcome = IF TrainRaised(stage, written)
                                 THEN "raised" ELSE "returned"]
        /\ UNCHANGED <<features, pvars, svars, cvars, evars, bvars>>

\* the /recommend handler runs get_recommendations.  The service has one
\* event loop and no worker thread; train_model awaits nothing that suspends
\* (model.fit and CreateInferenceSession are blocking calls), so from
\* TrainBegin to TrainEnd the loop runs no other coroutine.
recommend_partners ==
    /\ ~Training
    /\ GetRecommendations

TrainServeNext ==
    Construct \/ Initialize \/ DiskChange \/ TrainBegin \/ TrainEnd
        \/ recommend_partners

TrainServeSpec == ModelInit /\ [][TrainServeNext]_vars

\* --------------------------------------- explain_recommendation, repeatedly

\* One engine serving explain_recommendation calls one after another, with
\* get_recommendations and get_batch_recommendations calls and reloads of the
\* model between them.  `explained` keeps, for every explain_recommendation
\* call, its arguments, the model it ran against and what it returned.

ExplainInit ==
    /\ features \in BatchSnapshots
    /\ \E ms \in BatchModelStates : model = ms[1] /\ model_loaded = ms[2]
    /\ training_history = <<>>
    /\ disk_model \in Artifacts
    /\ history_file = <<>>
    /\ mop = Completed("initialize", FALSE)
    /\ rec = NoCall
    /\ expl = NoExplain
    /\ explained = <<>>
    /\ batches = <<>>
    /\ pair = NoPair
    /\ PipelineIdle
    /\ BatchIdle
    /\ ServiceIdle

\* the companies explanations are asked for, as query or as partner
ExplainedCompanies == {get_all_companies[1], get_all_companies[2]}

\* POST /explain: one explain_recommendation call, start to end
explain_recommendation_endpoint ==
    \E company_id \in ExplainedCompanies, partner_id \in ExplainedCompanies,
       top_features \in {MaxTopK} :
        /\ Len(explained) < MaxCalls
        /\ expl' = explain_recommendation(company_id, partner_id, top_features)
        /\ explained' = Append(explained,
                               [company_id |-> company_id, partner_id |-> partner_id,
                                top_features |-> top_features,
                                model |-> model, model_loaded |-> model_loaded,
                                features |-> features, output |-> expl'])
        /\ UNCHANGED <<features, pvars, pair, svars, mvars, rec, bvars, batches>>

\* a get_recommendations call between two explanations
RecommendBetween ==
    \E company_id \in {Head(get_all_companies)} :
        /\ rec' = get_recommendations(company_id, MaxTopK, TRUE)
        /\ rec' # rec
        /\ UNCHANGED <<features, pvars, pair, svars, mvars, expl, bvars, cvars>>

\* a get_batch_recommendations call between two explanations
BatchBetween ==
    \E ids \in {get_all_companies} :
        /\ batch_results' = get_batch_recommendations(ids, MaxTopK)
        /\ batch_results' # batch_results
        /\ UNCHANGED <<features, pvars, svars, cvars, mvars, evars, failing, company_ids,
                       batch_top_k, task, task_result, semaphore, batch_pc>>

ExplainNext ==
    explain_recommendation_endpoint \/ RecommendBetween \/ BatchBetween \/ ReloadModel

ExplainSpec == ExplainInit /\ [][ExplainNext]_vars

\* ------------------------------------------- the compatibility of a pair

\* funding_amount (millions) and employee_count figures of a company
FundingAmounts == {0, 1, 3, 10, 1000}

EmployeeCounts == {0, 5, 50}

\* feature records differing in their traction metrics
CompatRecords ==
    {[BatchRecord EXCEPT !.traction_metrics =
         [well_formed |-> TRUE, funding_amount |-> f, employee_count |-> e,
          growth_rate |-> 20, market_sentiment |-> 5000]] :
        f \in FundingAmounts, e \in EmployeeCounts}
    \cup {r \in FeatureRecords :
            r.culture_vector = <<1, 0>> /\ ~r.traction_metrics.well_formed}

\* ------------------------------ get_batch_recommendations, calls side by side

\* Several get_batch_recommendations calls on the one event loop, from
\* /batch-recommend requests answered synchronously or from background tasks.
\* Every call creates its own Semaphore(concurrency_limit) and its own tasks;
\* a task suspends inside get_recommendations at the feature store requests,
\* where the loop runs the other calls' tasks.  `batches` holds one record
\* per call.

\* the query ids of each of these calls
ConcurrentIds == [i \in 1..MaxBatch |-> get_all_companies[((i - 1) % NumCompanies) + 1]]

\* a request handler or a background task calls get_batch_recommendations
StartCall ==
    /\ Len(batches) < MaxRequests
    /\ batches' = Append(batches,
                         [company_ids |-> ConcurrentIds,
                          top_k |-> MaxTopK,
                          task |-> [i \in DOMAIN ConcurrentIds |-> "pending"],
                          task_result |-> [i \in DOMAIN ConcurrentIds |-> <<>>],
                          semaphore |-> ConcurrencyLimit,
                          results |-> <<>>,
                          pc |-> "gathering"])
    /\ UNCHANGED <<features, pvars, svars, mvars, evars, bvars, explained>>

\* task i of call b enters `async with semaphore`, the call's own semaphore
AcquireIn(b, i) ==
    /\ b \in DOMAIN batches
    /\ batches[b].pc = "gathering"
    /\ i \in DOMAIN batches[b].task
    /\ batches[b].task[i] = "pending"
    /\ \A j \in 1..(i - 1) : batches[b].task[j] # "pending"
    /\ batches[b].semaphore > 0
    /\ batches' = [batches EXCEPT ![b].task[i] = "running",
                                  ![b].semaphore = @ - 1]
    /\ UNCHANGED <<features, pvars, svars, mvars, evars, bvars, explained>>

\* task i of call b: its get_recommendations call ends and the task leaves
\* the block, releasing the call's semaphore
FinishIn(b, i) ==
    /\ b \in DOMAIN batches
    /\ batches[b].pc = "gathering"
    /\ i \in DOMAIN batches[b].task
    /\ batches[b].task[i] = "running"
    /\ batches' = [batches EXCEPT
                      ![b].task[i] = "done",
                      ![b].task_result[i] =
                          process_company(batches[b].company_ids[i], batches[b].top_k),
                      ![b].semaphore = @ + 1]
    /\ UNCHANGED <<features, pvars, svars, mvars, evars, bvars, explained>>

\* gather of call b has every task's result: the map is built and returned
CollectIn(b) ==
    /\ b \in DOMAIN batches
    /\ batches[b].pc = "gathering"
    /\ \A i \in DOMAIN batches[b].task : batches[b].task[i] = "done"
    /\ batches' = [batches EXCEPT ![b].results = CollectResults(batches[b].task_result),
                                  ![b].pc = "returned"]
    /\ UNCHANGED <<features, pvars, svars, mvars, evars, bvars, explained>>

\* the per-query get_recommendations calls in flight, over every batch call
TotalInFlight ==
    Cardinality({bi \in (DOMAIN batches) \X (1..MaxBatch) :
                    batches[bi[1]].task[bi[2]] = "running"})

ConcurrentNext ==
    \/ StartCall
    \/ \E b \in 1..MaxRequests, i \in 1..MaxBatch : AcquireIn(b, i)
    \/ \E b \in 1..MaxRequests, i \in 1..MaxBatch : FinishIn(b, i)
    \/ \E b \in 1..MaxRequests : CollectIn(b)

ConcurrentSpec == BatchInit /\ [][ConcurrentNext]_vars

\* ------------------------------------------- the sub-scores of a pair

\* traction metrics over the range of the data model: no funding and no staff
\* or some, a growth rate that is negative, moderate or beyond 100 %, a market
\* sentiment at either end or in the middle
BreakdownTraction ==
    {[well_formed |-> TRUE, funding_amount |-> fe[1], employee_count |-> fe[2],
      growth_rate |-> g, market_sentiment |-> m] :
        fe \in {<<0, 0>>, <<10, 50>>}, g \in {-200, 20, 300},
        m \in {-Scale, 0, Scale}}

\* feature records with these metrics and a culture vector or its opposite,
\* a record without culture data, and a record with malformed metrics
BreakdownRecords ==
    {[user_overlap_score |-> o, culture_vector |-> v, traction_metrics |-> t] :
        o \in OverlapValues, v \in {<<1, 0>>, <<-1, 0>>}, t \in BreakdownTraction}
    \cup {r \in FeatureRecords :
            r.culture_vector = <<0, 0>> \/ ~r.traction_metrics.well_formed}

\* --------------------------------------------- the analysers of a pair

\* the feature records a pair is drawn from: every culture vector or none,
\* funding and staff figures, growth rates and sentiments over their range,
\* malformed metrics
PairRecords == ScoreRecords \cup CompatRecords \cup BreakdownRecords

\* a pair of feature records and a top_features before the analysers run
PairInputs ==
    {[applied |-> FALSE, query_features |-> a, candidate_features |-> b,
      top_features |-> k] :
        a \in PairRecords, b \in PairRecords, k \in TopKs}

PairInit ==
    /\ features = [c \in Companies |-> BatchRecord]
    /\ \E ms \in BatchModelStates : model = ms[1] /\ model_loaded = ms[2]
    /\ training_history = <<>>
    /\ disk_model = model
    /\ history_file = <<>>
    /\ mop = NoOp
    /\ rec = NoCall
    /\ expl = NoExplain
    /\ explained = <<>>
    /\ batches = <<>>
    /\ pair \in PairInputs
    /\ PipelineIdle
    /\ BatchIdle
    /\ ServiceIdle

\* the engine's analysers applied to the pair: the match score, the
\* compatibility factors both ways round, the timing score of the candidate,
\* the behavioural alignment and the feature contributions
AnalysePair ==
    /\ ~pair.applied
    /\ pair # NoPair
    /\ LET a == pair.query_features
           b == pair.candidate_features
       IN  pair' =
             [applied |-> TRUE, query_features |-> a, candidate_features |-> b,
              top_features |-> pair.top_features, loaded |-> model_loaded,
              match |-> _calculate_match_score(a, b, get_all_companies[1],
                                               get_all_companies[2]),
              compatibility_factors |-> _calculate_compatibility_factors(a, b),
              swapped_factors |-> _calculate_compatibility_factors(b, a),
              timing_score |-> _calculate_timing_score(b),
              behavioral_alignment |-> _calculate_behavioral_alignment(a, b),
              feature_contributions |->
                 _analyze_feature_contributions(a, b, pair.top_features)]
    /\ UNCHANGED <<features, pvars, mvars, rec, expl, bvars, svars, cvars>>

PairSpec == PairInit /\ [][AnalysePair]_vars

\* ------------------------------------------- the feature store's pipeline

\* FeaturePipeline keeps the feature snapshots in one parquet file per day
\* (features_<date>.parquet, rewritten by every _store_features call of that
\* day) and in Redis under "features:<company_id>" with a TTL of one hour;
\* _calculate_user_overlap keeps its scores under "user_overlap:<company_id>"
\* for a day.  A snapshot is told from another of the same company by its
\* timestamp, which here counts the _store_features calls.

\* the companies the pipeline is asked about
PipelineCompanies == {get_all_companies[i] : i \in 1..Min(2, NumCompanies)}

\* f"features:{company_id}" and f"user_overlap:{company_id}"
FeaturesKey(company_id) == <<"features", company_id>>

OverlapKey(company_id) == <<"user_overlap", company_id>>

\* redis_client.setex(key, ttl, value) on a Redis holding `store`
RedisSetex(store, key, value) ==
    [k \in DOMAIN store \cup {key} |-> IF k = key THEN value ELSE store[k]]

\* feature.json() and CompanyFeatures.parse_raw
feature_json(feature) == <<"json", feature.company_id, feature.timestamp>>

parse_raw(data) == [company_id |-> data[2], timestamp |-> data[3]]

\* the DataFrame row of a feature and the CompanyFeatures built from a row
parquet_row(feature) == <<feature.company_id, feature.timestamp>>

feature_of_row(row) == [company_id |-> row[1], timestamp |-> row[2]]

\* str(overlap_score) and float(cached_score)
score_str(score) == <<"str", score>>

score_float(data) == data[2]

\* the timestamp of the next batch: later than every timestamp stored so far
NextTimestamp ==
    1 + Cardinality({t \in 1..MaxStores :
                        \E d \in DOMAIN parquet : \E i \in DOMAIN parquet[d] :
                            parquet[d][i][2] >= t})

\* the features of a batch: one per listed company, stamped now
BatchOf(ids) == [i \in DOMAIN ids |-> [company_id |-> ids[i], timestamp |-> NextTimestamp]]

\* the batches _store_features is given: one or two companies
StoreBatches ==
    {<<a>> : a \in PipelineCompanies}
    \cup UNION {{<<a, b>> : b \in PipelineCompanies \ {a}} : a \in PipelineCompanies}

\* Redis after the first n features of the batch have been cached
RECURSIVE CacheFeatures(_, _, _)
CacheFeatures(store, batch, n) ==
    IF n = 0 THEN store
    ELSE RedisSetex(CacheFeatures(store, batch, n - 1),
                    FeaturesKey(batch[n].company_id), feature_json(batch[n]))

\* FeaturePipeline._store_features: the day's file is written with the rows
\* of the batch, replacing the file if there is one, and then every feature is
\* cached.  `written` says whether to_parquet succeeds and `cached` how many
\* setex calls succeed before one raises (all of them: none raises); the
\* exception is logged and the call returns.
_store_features ==
    \E ids \in StoreBatches, written \in BOOLEAN, cached \in 0..2 :
        /\ NextTimestamp <= MaxStores
        /\ cached <= Len(ids)
        /\ ~written => cached = 0
        /\ LET batch == BatchOf(ids)
           IN  /\ parquet' =
                     IF written
                     THEN [d \in DOMAIN parquet \cup {today} |->
                             IF d = today
                             THEN [i \in DOMAIN batch |-> parquet_row(batch[i])]
                             ELSE parquet[d]]
                     ELSE parquet
               /\ redis' = CacheFeatures(redis, batch, cached)
               /\ pcall' = [op |-> "_store_features"]
        /\ UNCHANGED <<features, mvars, evars, bvars, svars, cvars, today>>

\* FeaturePipeline._get_feature_from_storage: the last row of the company in
\* the file with the greatest date, None (here <<>>) when there is no file or
\* the file has no row of the company
_get_feature_from_storage(company_id) ==
    IF DOMAIN parquet = {} THEN <<>>
    ELSE LET latest_file == parquet[CHOOSE d \in DOMAIN parquet :
                                        \A e \in DOMAIN parquet : e <= d]
             company_data == {i \in DOMAIN latest_file :
                                 latest_file[i][1] = company_id}
         IN  IF company_data = {} THEN <<>>
             ELSE feature_of_row(latest_file[CHOOSE i \in company_data :
                                                 \A j \in company_data : j <= i])

\* the loop of get_online_features over the first n ids
RECURSIVE OnlineFeatures(_, _)
OnlineFeatures(ids, n) ==
    IF n = 0 THEN <<>>
    ELSE LET before == OnlineFeatures(ids, n - 1)
             cache_key == FeaturesKey(ids[n])
             feature == _get_feature_from_storage(ids[n])
         IN  IF cache_key \in DOMAIN redis
             THEN Append(before, parse_raw(redis[cache_key]))
             ELSE IF feature # <<>> THEN Append(before, feature)
             ELSE before

\* get_online_features, were storage asked before the cache
get_online_features_StorageFirst(ids, redis_ok) ==
    IF redis_ok
    THEN SelectSeq([i \in DOMAIN company_ids |->
                      IF _get_feature_from_storage(ids[i]) # <<>>
                      THEN _get_feature_from_storage(ids[i])
                      ELSE IF FeaturesKey(ids[i]) \in DOMAIN redis
                      THEN parse_raw(redis[FeaturesKey(ids[i])])
                      ELSE [company_id |-> None, timestamp |-> 0]],
                   LAMBDA f : f.company_id # None)
    ELSE <<>>

\* FeaturePipeline.get_online_features; [] when Redis raises
get_online_features(ids, redis_ok) ==
    IF redis_ok THEN OnlineFeatures(ids, Len(ids)) ELSE <<>>

\* the lists of ids get_online_features is asked for
OnlineRequests ==
    {<<>>} \cup {<<a>> : a \in PipelineCompanies}
    \cup {<<a, b>> : a \in PipelineCompanies, b \in PipelineCompanies}

\* a caller invokes get_online_features
GetOnlineFeatures ==
    \E ids \in OnlineRequests, redis_ok \in BOOLEAN :
        /\ pcall' = [op |-> "get_online_features", company_ids |-> ids,
                     redis_ok |-> redis_ok, outcome |-> "returned",
                     features |-> get_online_features(ids, redis_ok)]
        /\ pcall' # pcall
        /\ UNCHANGED <<features, mvars, evars, bvars, svars, cvars,
                       redis, parquet, today>>

\* the values np.random.beta(2, 5) gives
BetaSamples == {(2 * Scale) \div 10, (4 * Scale) \div 10}

\* _calculate_user_overlap, were the new sample returned without being cached
_calculate_user_overlap_NoWrite(company_id, sample, get_ok, setex_ok) ==
    LET cache_key == OverlapKey(company_id)
    IN  IF ~get_ok
        THEN [score |-> 0, hit |-> FALSE, writes |-> 0, redis |-> redis]
        ELSE IF cache_key \in DOMAIN redis
        THEN [score |-> score_float(redis[cache_key]), hit |-> TRUE, writes |-> 0,
              redis |-> redis]
        ELSE [score |-> sample, hit |-> FALSE, writes |-> 0, redis |-> redis]

\* FeaturePipeline._calculate_user_overlap: the cached score, or a new sample
\* that is cached and returned; 0.0 when a Redis call raises.  `get_ok` and
\* `setex_ok` say whether the two Redis calls succeed.
_calculate_user_overlap(company_id, sample, get_ok, setex_ok) ==
    LET cache_key == OverlapKey(company_id)
    IN  IF ~get_ok
        THEN [score |-> 0, hit |-> FALSE, writes |-> 0, redis |-> redis]
        ELSE IF cache_key \in DOMAIN redis
        THEN [score |-> score_float(redis[cache_key]), hit |-> TRUE, writes |-> 0,
              redis |-> redis]
        ELSE IF ~setex_ok
        THEN [score |-> 0, hit |-> FALSE, writes |-> 0, redis |-> redis]
        ELSE [score |-> sample, hit |-> FALSE, writes |-> 1,
              redis |-> RedisSetex(redis, cache_key, score_str(sample))]

\* _transform_events_to_features asks for the overlap score of a company
CalculateUserOverlap ==
    \E company_id \in PipelineCompanies, sample \in BetaSamples,
       get_ok \in BOOLEAN, setex_ok \in BOOLEAN :
        LET r == _calculate_user_overlap(company_id, sample, get_ok, setex_ok)
        IN  /\ redis' = r.redis
            /\ pcall' = [op |-> "_calculate_user_overlap", company_id |-> company_id,
                         get_ok |-> get_ok, setex_ok |-> setex_ok,
                         cached |-> OverlapKey(company_id) \in DOMAIN redis,
                         hit |-> r.hit, writes |-> r.writes, score |-> r.score]
            /\ pcall' # pcall
            /\ UNCHANGED <<features, mvars, evars, bvars, svars, cvars,
                           parquet, today>>

\* the TTL of a Redis entry runs out
CacheExpire ==
    \E k \in DOMAIN redis :
        /\ redis' = [j \in DOMAIN redis \ {k} |-> redis[j]]
        /\ UNCHANGED <<features, mvars, evars, bvars, svars, cvars,
                       parquet, today, pcall>>

\* midnight (UTC) passes
NextDay ==
    /\ today < MaxDays
    /\ today' = today + 1
    /\ UNCHANGED <<features, mvars, evars, bvars, svars, cvars,
                   redis, parquet, pcall>>

PipelineNext ==
    \/ _store_features
    \/ GetOnlineFeatures
    \/ CacheExpire
    \/ NextDay

\* FeaturePipeline.__init__ and initialize: an empty store; the recommender
\* beside it has every company's record and no model
PipelineInit ==
    /\ features = [c \in Companies |-> BatchRecord]
    /\ model = None
    /\ model_loaded = FALSE
    /\ training_history = <<>>
    /\ disk_model = model
    /\ history_file = <<>>
    /\ mop = NoOp
    /\ rec = NoCall
    /\ expl = NoExplain
    /\ explained = <<>>
    /\ batches = <<>>
    /\ pair = NoPair
    /\ PipelineIdle
    /\ BatchIdle
    /\ ServiceIdle

\* the feature store storing and serving snapshots
PipelineSpec == PipelineInit /\ [][PipelineNext]_vars

OverlapNext ==
    \/ CalculateUserOverlap
    \/ CacheExpire

\* the feature store computing overlap scores
OverlapSpec == PipelineInit /\ [][OverlapNext]_vars

\* ------------------------------------------------------------ the claims

Returned == rec.outcome = "returned"

ResultIds == {rec.result[i].company_id : i \in DOMAIN rec.result}

\* C1: no recommendation returned by get_recommendations(query) has
\* company_id equal to the query id.
C1_NoSelfRecommendation ==
    Returned => \A i \in DOMAIN rec.result : rec.result[i].company_id # rec.company_id

\* a call for a company that has features and is on the company list returned
\* recommendations
C1_Witness ==
    /\ Returned /\ rec.known /\ rec.result # <<>>
    /\ \E i \in DOMAIN get_all_companies : get_all_companies[i] = rec.company_id

\* C2 as claimed: for every integer top_k the returned list has at most top_k
\* entries.
C2_LengthAtMostAnyTopK == Returned => Len(rec.result) <= rec.top_k

\* C2 amended: for every top_k >= 0 the returned list has at most top_k
\* entries.
C2_LengthAtMostTopK ==
    (Returned /\ rec.top_k >= 0) => Len(rec.result) <= rec.top_k

\* the cut dropped a ranked candidate and left exactly top_k >= 1 entries
C2_Witness ==
    /\ Returned /\ rec.top_k >= 1
    /\ Len(rec.ranked) > rec.top_k
    /\ Len(rec.result) = rec.top_k

\* C3: the returned list is sorted by descending match_score, and no
\* candidate at or above the threshold that the top_k cut left out has a
\* strictly higher match_score than a returned one.
C3_SortedDescending ==
    Returned =>
        /\ \A i, j \in DOMAIN rec.result :
              i < j => rec.result[i].match_score >= rec.result[j].match_score
        /\ \A k \in DOMAIN rec.processed :
              (/\ rec.processed[k].match_score >= similarity_threshold
               /\ rec.processed[k].company_id \notin ResultIds)
              => \A i \in DOMAIN rec.result :
                    rec.processed[k].match_score <= rec.result[i].match_score

\* the candidate loop met a lower score first, the sort moved the higher one
\* to the front and the cut left the lower one out
C3_Witness ==
    /\ Returned /\ Len(rec.result) = 1 /\ Len(rec.processed) >= 2
    /\ rec.processed[1].match_score >= similarity_threshold
    /\ rec.processed[1].match_score < rec.result[1].match_score
    /\ rec.processed[1].company_id \notin ResultIds

\* C4: candidates with equal match_score are ordered by candidate id.
C4_TiesOrderedById ==
    Returned =>
        \A i, j \in DOMAIN rec.result :
            (i < j /\ rec.result[i].match_score = rec.result[j].match_score)
            => rec.result[i].company_id < rec.result[j].company_id

C7_FailingCandidateSkipped ==
    Returned =>
        /\ \A k \in DOMAIN rec.processed :
              rec.processed[k].raised => rec.processed[k].company_id \notin ResultIds
        /\ rec.result =
              PySlice(Ranked(SelectSeq(rec.processed, LAMBDA p : ~p.raised)),
                      rec.top_k)

QueryIds == {company_ids[i] : i \in DOMAIN company_ids}

\* the map holds every query id: [] for a call that raised, and otherwise
\* the list the single get_recommendations call returns
EntriesAsSingleCalls ==
    \A q \in QueryIds :
        /\ q \in DOMAIN batch_results
        /\ LET r == get_recommendations(q, batch_top_k, TRUE)
           IN  batch_results[q] =
                  IF r.outcome = "raised" THEN <<>> ELSE r.result

\* C8 as claimed: for a list of N query ids the returned map has exactly N
\* entries; a raising query is present with an empty list and the others are
\* unaffected.
C8_ExactlyNEntries ==
    batch_pc = "returned" =>
        /\ Cardinality(DOMAIN batch_results) = Len(company_ids)
        /\ EntriesAsSingleCalls

\* C8 amended: the returned map has exactly one entry per distinct query id
\* (N entries when the N ids are pairwise distinct); a raising query is
\* present with an empty list and the others are unaffected.
C8_OneEntryPerDistinctId ==
    batch_pc = "returned" =>
        /\ DOMAIN batch_results = QueryIds
        /\ EntriesAsSingleCalls

\* a batch of two distinct ids returned: one call raised, the other one's
\* entry holds recommendations
C8_Witness ==
    /\ batch_pc = "returned"
    /\ \E q \in QueryIds : q \in failing /\ batch_results[q] = <<>>
    /\ \E q \in QueryIds : q \notin failing /\ batch_results[q] # <<>>

\* C9: at every moment at most 5 per-query calls are in flight, and once a
\* batch has started it returns with every query id processed.
C9_BoundedConcurrencyAndProgress ==
    /\ [](InFlight <= ConcurrencyLimit)
    /\ [](batch_pc = "gathering" =>
            <>(batch_pc = "returned" /\ \A i \in DOMAIN task : task[i] = "done"))

\* five calls are in flight, one of them by a task that had to wait for the
\* semaphore, after a raising call has released it
C9_Witness ==
    /\ InFlight = ConcurrencyLimit
    /\ \E i \in DOMAIN task : i > ConcurrencyLimit /\ task[i] = "running"
    /\ \E j \in DOMAIN task : task[j] = "done" /\ company_ids[j] \in failing

\* C10: after a reload_model that raised, the model that was loaded before
\* it is still active: the status reports loaded with the same version, and
\* predict answers with the old model's output.
C10_FailedReloadKeepsOldModel ==
    (mop.op = "reload_model" /\ mop.outcome = "raised" /\ mop.model_loaded) =>
        /\ get_model_status.loaded
        /\ get_model_status.version = model_version
        /\ \A q \in Companies, c \in Companies :
              predict(q, c) = ModelOutput(mop.model, q, c)

\* C11: while a reload_model that started with a model loaded is running,
\* the previous instance is still the active one: the model is loaded and a
\* scoring call is answered by the instance held when the reload began.
C11_OldInstanceActiveDuringReload ==
    (Reloading /\ mop.model_loaded) =>
        /\ model_loaded
        /\ model = mop.model
        /\ \A q \in Companies, c \in Companies :
              predict(q, c) = ModelOutput(mop.model, q, c)

\* the pair's analysers have run
Analysed == pair.applied

\* the culture vectors the analysers read from the two records of the pair
QueryVector == get_culture_vector(pair.query_features)

CandidateVector == get_culture_vector(pair.candidate_features)

\* C12: with no model loaded, the score of a pair is exactly 0.5 whenever the
\* culture vector of either company is all-zero or missing.
C12_ZeroVectorScoresHalf ==
    (Analysed /\ ~pair.loaded) =>
        ((Norm(QueryVector) = 0 \/ Norm(CandidateVector) = 0)
            => pair.match.score = Scale \div 2)

\* C13: with no model loaded and two non-zero culture vectors, the score is
\* (cos + 1) / 2, so 0.5 for orthogonal and 0 for opposite vectors.
C13_FallbackIsRemappedCosine ==
    (Analysed /\ ~pair.loaded) =>
        ((Norm(QueryVector) # 0 /\ Norm(CandidateVector) # 0)
            => pair.match.score =
                  (cosine_similarity(QueryVector, CandidateVector) + Scale) \div 2)

\* C14: with no model loaded, the score of every pair of culture vectors,
\* zero and opposite vectors included, lies in [0,1].
C14_FallbackInUnitInterval ==
    (Analysed /\ ~pair.loaded) =>
        /\ pair.match.score >= 0
        /\ pair.match.score <= Scale

\* with no model loaded, a pair of opposite culture vectors has been scored
C14_Witness ==
    /\ Analysed /\ ~pair.loaded
    /\ Norm(QueryVector) # 0 /\ Norm(CandidateVector) # 0
    /\ cosine_similarity(QueryVector, CandidateVector) = -Scale
    /\ pair.match.score = 0

\* C15: every returned recommendation has match_score >= similarity_threshold,
\* and every candidate that has features and scored at or above the threshold
\* is in the ranked list, of which the result is the top_k cut.
C15_ThresholdFilter ==
    Returned =>
        /\ \A i \in DOMAIN rec.result :
              rec.result[i].match_score >= similarity_threshold
        /\ \A k \in DOMAIN rec.processed :
              rec.processed[k].match_score >= similarity_threshold
                  => \E i \in DOMAIN rec.ranked :
                        rec.ranked[i].company_id = rec.processed[k].company_id
        /\ rec.result = PySlice(rec.ranked, rec.top_k)

\* a call has scored one candidate below the threshold and returned another
\* that scored above it
C15_Witness ==
    /\ Returned
    /\ \E k \in DOMAIN rec.processed :
          rec.processed[k].match_score < similarity_threshold
    /\ rec.result # <<>>

\* C16: every returned recommendation has confidence = min(match_score * 1.1,
\* 1.0), so match_score <= confidence <= 1 and both lie in [0,1].
C16_ConfidenceBounds ==
    Returned =>
        \A i \in DOMAIN rec.result :
            LET r == rec.result[i]
            IN  /\ r.confidence = Min((r.match_score * 11) \div 10, Scale)
                /\ 0 <= r.match_score
                /\ r.match_score <= r.confidence
                /\ r.confidence <= Scale

\* a call with the model loaded has returned a recommendation whose
\* confidence is cut at 1.0 and one whose confidence is match_score * 1.1
C16_Witness ==
    /\ Returned /\ rec.loaded
    /\ \E i \in DOMAIN rec.result : rec.result[i].match_score = Scale
    /\ \E i \in DOMAIN rec.result :
          /\ rec.result[i].confidence < Scale
          /\ rec.result[i].confidence > rec.result[i].match_score

RequestIds == {request.company_ids[i] : i \in DOMAIN request.company_ids}

\* C17: a request with more than 100 ids is answered "accepted" before any
\* per-query call of the batch has run, and the batch then runs in the
\* background; a request with at most 100 ids is run before the answer, which
\* is "completed" with one result entry per query id.
C17_AcceptedBeforeRunOrCompleted ==
    request.received =>
        /\ response.status =
              IF Len(request.company_ids) > BatchThreshold
              THEN "accepted" ELSE "completed"
        /\ response.status = "accepted" => job.pc # "none"
        /\ response.status = "completed" =>
              /\ job.pc = "none"
              /\ DOMAIN response.results = RequestIds
              /\ response.processed_count = Cardinality(RequestIds)
              /\ response.results =
                    get_batch_recommendations(request.company_ids, request.top_k)
        /\ job.pc \in {"storing", "ended"} =>
              /\ response.status = "accepted"
              /\ job.results =
                    get_batch_recommendations(request.company_ids, request.top_k)

\* a request of 101 ids was answered "accepted" and its batch has since run
\* in the background
C17_Witness ==
    /\ Len(request.company_ids) = BatchThreshold + 1
    /\ response.status = "accepted"
    /\ job.pc = "ended"
    /\ DOMAIN job.results = RequestIds

\* C18: once the background task of an accepted batch has ended, the cache
\* holds for every query id an entry with that id's recommendation list and
\* the configured TTL; an id whose own caching failed is the only one that
\* may be missing.
C18_EveryOtherEntryWritten ==
    (response.status = "accepted" /\ job.pc = "ended") =>
        \A q \in RequestIds \ job.failed :
            /\ q \in DOMAIN cache
            /\ cache[q] = [value |-> json_dumps(job.results[q]),
                           ttl |-> cache_ttl_seconds]

\* C19: in the map a batch call returns, a query id without a feature record
\* has an empty list, and every other query id has the list a single
\* get_recommendations call returns on the same features and model.
C19_BatchEqualsSingleCalls ==
    batch_pc = "returned" =>
        \A q \in QueryIds \ failing :
            /\ q \in DOMAIN batch_results
            /\ q \notin DOMAIN features => batch_results[q] = <<>>
            /\ q \in DOMAIN features =>
                  batch_results[q] =
                      PySlice(Ranked(ProcessAll(q, get_company_features(q),
                                  RemoveQuery(get_all_companies, q),
                                  get_batch_features(
                                      RemoveQuery(get_all_companies, q), TRUE))),
                              batch_top_k)

\* a batch over two ids has returned: one id has no feature record and an
\* empty list, the other has recommendations
C19_Witness ==
    /\ batch_pc = "returned"
    /\ failing = {}
    /\ \E q \in QueryIds : q \notin DOMAIN features /\ batch_results[q] = <<>>
    /\ \E q \in QueryIds : q \in DOMAIN features /\ batch_results[q] # <<>>

\* C20: every train_model run that completes, returning or raising, appends
\* exactly one record to the training history, and the record of a run that
\* raised carries the failure.
C20_EveryRunAppendsOneRecord ==
    [][TrainModel =>
         /\ Len(training_history') = Len(training_history) + 1
         /\ mop'.outcome = "raised" =>
               "error" \in DOMAIN training_history'[Len(training_history')]]_vars

\* C21: a train_model run that raised leaves the serving model as it was:
\* the loaded flag and the model instance are those from before the run, the
\* status reports the same, and predict answers as before.
C21_FailedTrainingKeepsServingModel ==
    (mop.op = "train_model" /\ mop.outcome = "raised") =>
        /\ model_loaded = mop.model_loaded
        /\ model = mop.model
        /\ get_model_status.loaded = mop.model_loaded
        /\ get_model_status.version = model_version
        /\ mop.model_loaded =>
              \A q \in Companies, c \in Companies :
                  predict(q, c) = ModelOutput(mop.model, q, c)

\* C22: the training history is append-only: a record get_training_history
\* returns is returned at the same position after every later step (training
\* runs, reloads, restarts of the process).
C22_HistoryAppendOnly ==
    [][\A i \in DOMAIN get_training_history :
          /\ i \in DOMAIN get_training_history'
          /\ get_training_history'[i] = get_training_history[i]]_vars

\* C23: while a training job is in progress, a get_recommendations request
\* can be served.
C23_ServedDuringTraining ==
    (Training /\ Idle) => ENABLED recommend_partners

Explained == expl.outcome = "returned"

\* the keys of an explanation that hold a score or a breakdown
ExplanationKeys ==
    {"overall_match_score", "feature_contributions", "compatibility_breakdown",
     "cultural_alignment", "business_synergies", "potential_challenges"}

SameCall(a, b) ==
    /\ a.company_id = b.company_id
    /\ a.partner_id = b.partner_id
    /\ a.top_features = b.top_features
    /\ a.model = b.model
    /\ a.model_loaded = b.model_loaded
    /\ a.features = b.features

C26_FundingAndSizeSymmetric ==
    Analysed =>
        /\ pair.compatibility_factors.funding_stage_alignment
              = pair.swapped_factors.funding_stage_alignment
        /\ pair.compatibility_factors.company_size_alignment
              = pair.swapped_factors.company_size_alignment

\* a pair with different, positive funding and staff figures analysed both
\* ways round
C26_Witness ==
    /\ Analysed
    /\ LET q == get_traction_metrics(pair.query_features)
           p == get_traction_metrics(pair.candidate_features)
       IN  /\ q.well_formed /\ p.well_formed
           /\ 0 < q.funding_amount /\ q.funding_amount < p.funding_amount
           /\ 0 < p.employee_count /\ p.employee_count < q.employee_count
    /\ pair.compatibility_factors.funding_stage_alignment > (2 * Scale) \div 10
    /\ pair.compatibility_factors.funding_stage_alignment < Scale

\* the candidates of the call
CandidateIds == {rec.candidates[i] : i \in DOMAIN rec.candidates}

\* C27: every candidate get_recommendations returns had a feature record in
\* the batch fetch of the call; candidates without one are dropped and the
\* call still returns; when the batch fetch fails as a whole the call returns
\* an empty list and does not raise.
C27_OnlyFetchedCandidates ==
    rec # NoCall =>
        /\ rec.outcome = "returned"
        /\ ResultIds \subseteq rec.fetched
        /\ rec.fetched \subseteq DOMAIN features
        /\ ~rec.batch_ok => rec.result = <<>>

\* a call that returned a candidate while another candidate had no record
C27_Witness ==
    /\ Returned
    /\ rec.batch_ok
    /\ rec.result # <<>>
    /\ CandidateIds \ rec.fetched # {}

\* the record has every value the filters require
PassesFilters(record, filters) ==
    \A item \in filters : item[1] \in DOMAIN record /\ record[item[1]] = item[2]

\* C28: when the caller supplies filters, no candidate whose features fail
\* them appears in the result of get_recommendations.
C28_FiltersApplied ==
    (Returned /\ rec.filters # NoFilters) =>
        \A i \in DOMAIN rec.result :
            PassesFilters(features[rec.result[i].company_id], rec.filters)

\* C29: at every moment the per-query get_recommendations calls in flight on
\* behalf of get_batch_recommendations number at most the concurrency limit,
\* also when two or more batch calls run at the same time.
C29_TotalInFlightBounded == TotalInFlight <= ConcurrencyLimit

\* the weight of each feature in _analyze_feature_contributions, in hundredths
ContributionWeight(feature) ==
    IF feature = "user_overlap_score" THEN 30 ELSE 25

\* the contributions are in descending order of contribution, and each is its
\* feature value times the feature's weight
ContributionsSortedAndWeighted ==
    LET c == pair.feature_contributions
    IN  /\ \A i, j \in DOMAIN c : i < j => c[i].contribution >= c[j].contribution
        /\ \A i \in DOMAIN c :
              /\ c[i].feature \in {"user_overlap_score", "funding_alignment"}
              /\ c[i].contribution =
                    (c[i].value * ContributionWeight(c[i].feature)) \div 100
              /\ c[i].feature = "user_overlap_score" =>
                    c[i].value = get_user_overlap_score(pair.query_features)

\* C30 as claimed: the feature contributions are sorted by descending
\* contribution, each is value times weight, and there are at most
\* top_features of them for every integer top_features.
C30_AtMostAnyTopFeatures ==
    Analysed =>
        /\ ContributionsSortedAndWeighted
        /\ Len(pair.feature_contributions) <= pair.top_features

\* C30 amended: the feature contributions are sorted by descending
\* contribution, each is value times weight, and for every top_features >= 0
\* there are at most top_features of them.
C30_SortedWeightedAndCut ==
    Analysed =>
        /\ ContributionsSortedAndWeighted
        /\ pair.top_features >= 0 =>
              Len(pair.feature_contributions) <= pair.top_features

\* the funding alignment, appended second, contributes more than the user
\* overlap and is the one contribution a cut at 1 keeps
C30_Witness ==
    /\ Analysed
    /\ pair.top_features = 1
    /\ Len(pair.feature_contributions) = 1
    /\ pair.feature_contributions[1].feature = "funding_alignment"
    /\ pair.feature_contributions[1].contribution
          > (get_user_overlap_score(pair.query_features) * 30) \div 100
    /\ get_user_overlap_score(pair.query_features) > 0

\* the company-size-disparity risk is among the challenges of the explanation
SizeDisparityReported ==
    \E i \in DOMAIN expl.potential_challenges :
        expl.potential_challenges[i] =
            "Different company sizes may create power imbalances"

\* the employee counts of the explained pair
ExplainedEmployees ==
    <<features[expl.query_company].traction_metrics.employee_count,
      features[expl.partner_company].traction_metrics.employee_count>>

\* C31: the risks reported by explain_recommendation depend on the feature
\* values of the pair: the company-size-disparity risk is reported when the
\* employee counts differ tenfold or more and is absent when they are equal.
C31_SizeRiskFollowsEmployeeCounts ==
    (Explained /\ ~expl.error) =>
        LET e == ExplainedEmployees
        IN  /\ Max(e[1], e[2]) >= 10 * Max(Min(e[1], e[2]), 1) => SizeDisparityReported
            /\ e[1] = e[2] => ~SizeDisparityReported

UnitInterval == 0..Scale

\* every component of a compatibility breakdown lies in [0,1]
BreakdownInUnit(b) ==
    /\ b.funding_stage_alignment \in UnitInterval
    /\ b.company_size_alignment \in UnitInterval
    /\ b.growth_trajectory_alignment \in UnitInterval
    /\ b.market_sentiment_alignment \in UnitInterval

\* C32: for feature records within the data model, each component of the
\* compatibility breakdown, the timing score and the behavioural alignment
\* lie in [0,1], on the analysers' error paths as well.
C32_SubScoresInUnitInterval ==
    Analysed =>
        /\ BreakdownInUnit(pair.compatibility_factors)
        /\ BreakdownInUnit(pair.swapped_factors)
        /\ pair.timing_score \in UnitInterval
        /\ pair.behavioral_alignment \in UnitInterval

\* a pair whose growth rates are more than 100 points apart and whose
\* sentiments are opposite: both differences are cut at 0
C32_Witness ==
    /\ Analysed
    /\ LET q == get_traction_metrics(pair.query_features)
           c == get_traction_metrics(pair.candidate_features)
       IN  /\ q.well_formed /\ c.well_formed
           /\ Abs(q.growth_rate - c.growth_rate) > 100
           /\ Abs(q.market_sentiment - c.market_sentiment) > Scale
    /\ pair.compatibility_factors.growth_trajectory_alignment = 0
    /\ pair.compatibility_factors.market_sentiment_alignment = 0

\* the traction metrics the analysers read from the two records of the pair
ExplainedTraction ==
    <<get_traction_metrics(pair.query_features),
      get_traction_metrics(pair.candidate_features)>>

\* min(a, b) / max(a, b, 1)
ClampedRatio(a, b) == (Min(a, b) * Scale) \div Max(Max(a, b), 1)

\* C33: funding-stage alignment is min(Fa,Fb)/max(Fa,Fb,1) * 0.8 + 0.2 and
\* size alignment is min(Ea,Eb)/max(Ea,Eb,1) * 0.7 + 0.3; a pair with both
\* amounts zero yields 0.2 and 0.3, and funding of 1 million against 1000
\* million yields 0.2008.
C33_AlignmentFormulas ==
    (Analysed /\ ExplainedTraction[1].well_formed /\ ExplainedTraction[2].well_formed) =>
        LET q == ExplainedTraction[1]
            p == ExplainedTraction[2]
            b == pair.compatibility_factors
        IN  /\ b.funding_stage_alignment =
                  (ClampedRatio(q.funding_amount, p.funding_amount) * 8) \div 10 + 2000
            /\ b.company_size_alignment =
                  (ClampedRatio(q.employee_count, p.employee_count) * 7) \div 10 + 3000
            /\ (q.funding_amount = 0 /\ p.funding_amount = 0) =>
                  b.funding_stage_alignment = 2000
            /\ (q.employee_count = 0 /\ p.employee_count = 0) =>
                  b.company_size_alignment = 3000
            /\ ({q.funding_amount, p.funding_amount} = {1, 1000}) =>
                  b.funding_stage_alignment = 2008

\* funding of 1 million against 1000 million and no staff on either side:
\* 0.2008 and 0.3
C33_Witness ==
    /\ Analysed
    /\ ExplainedTraction[1].well_formed /\ ExplainedTraction[2].well_formed
    /\ ExplainedTraction[1].funding_amount = 1
    /\ ExplainedTraction[2].funding_amount = 1000
    /\ ExplainedTraction[1].employee_count = 0
    /\ ExplainedTraction[2].employee_count = 0
    /\ pair.compatibility_factors.funding_stage_alignment = 2008
    /\ pair.compatibility_factors.company_size_alignment = 3000

\* C37: in every state of the ModelManager, after any sequence of initialize,
\* load_model, reload_model and train_model calls, failed ones included,
\* model_loaded implies that a model instance is present, so predict never
\* calls a missing model when the flag is set.
C37_LoadedImpliesModel == model_loaded => model # None

\* a model is loaded after a training run and a later reload that failed and
\* one that succeeded
C37_Witness ==
    /\ model_loaded /\ model # None
    /\ mop.op = "reload_model" /\ mop.outcome = "returned"
    /\ mop.model = None /\ ~mop.model_loaded
    /\ Len(training_history) >= 1

\* what get_online_features owes for one id: the cached record when Redis
\* has one, otherwise the last row of the latest file, otherwise nothing
OnlineAnswer(company_id) ==
    IF FeaturesKey(company_id) \in DOMAIN redis
    THEN <<parse_raw(redis[FeaturesKey(company_id)])>>
    ELSE IF \E d \in DOMAIN parquet : TRUE
    THEN LET latest == CHOOSE d \in DOMAIN parquet : \A e \in DOMAIN parquet : e <= d
             rows == {i \in DOMAIN parquet[latest] : parquet[latest][i][1] = company_id}
         IN  IF rows = {} THEN <<>>
             ELSE <<feature_of_row(parquet[latest][CHOOSE i \in rows : \A j \in rows : j <= i])>>
    ELSE <<>>

RECURSIVE OnlineAnswers(_)
OnlineAnswers(ids) ==
    IF ids = <<>> THEN <<>> ELSE OnlineAnswer(Head(ids)) \o OnlineAnswers(Tail(ids))

Served(company_id) == get_online_features(<<company_id>>, TRUE) # <<>>

\* C35: a company for which get_online_features returns a record keeps being
\* served: no expiry of a cache entry, no later _store_features call and no
\* change of day makes get_online_features([c]) return nothing.
C35_PublishedStaysServed ==
    [][\A c \in PipelineCompanies : Served(c) => Served(c)']_vars

C36_QueryRecordCarriesStoredValues ==
    (/\ rec.outcome = "returned"
     /\ rec.known
     /\ rec.company_id \in DOMAIN features
     /\ "culture_vector" \in DOMAIN features[rec.company_id]
     /\ features[rec.company_id].culture_vector # <<0, 0>>
     /\ features[rec.company_id].traction_metrics.well_formed)
    => /\ get_culture_vector(get_company_features(rec.company_id))
            = features[rec.company_id].culture_vector
       /\ get_traction_metrics(get_company_features(rec.company_id))
            = features[rec.company_id].traction_metrics

====
